---- MODULE Spec2Model ----
(***************************************************************************)
(* Model of miniDB/hash.py: class HashTable, a prime-sized slot array      *)
(* indexed by a CRC32 hash (string keys) or a multiplicative hash (other   *)
(* keys), with load-factor triggered resize and rehash.                    *)
(*                                                                         *)
(* Representation.                                                         *)
(*  - A Python object used as key or value is a record                     *)
(*    [kind, n, s]: kind "str" carries its UTF-8 bytes in s, kind "int"    *)
(*    carries the integer in n, kind "float" stands for any object that is *)
(*    neither str nor int (n only tells two such objects apart).           *)
(*  - None is the empty tuple, a (key, value) pair is <<key, value>>.      *)
(*  - Python lists are 0-based, sequences here are 1-based: list index i   *)
(*    is sequence index i + 1.                                             *)
(*  - A 32/33-bit word is a pair <<hi, lo>> with lo = w mod 2^16 and       *)
(*    hi = w div 2^16, because TLC evaluates with 32-bit signed integers.  *)
(*  - The HashTable instance is the record                                 *)
(*    [table, table_size, filled_count, primes_table, raised, resizes];    *)
(*    raised is "" or the exception that escaped, resizes counts the calls *)
(*    of resize() made while serving the current call.                     *)
(***************************************************************************)
EXTENDS Integers, Sequences, FiniteSets, TLC

\* ------------------------------------------------------------------------
\* Bounds of the workload (not program constants)
\* ------------------------------------------------------------------------
\* number of keys 0, 1, 2, ... the bulk load may insert
MaxNext == 37

\* ------------------------------------------------------------------------
\* Python objects
\* ------------------------------------------------------------------------
IntObj(i) == [kind |-> "int", n |-> i, s |-> <<>>]
StrObj(bytes) == [kind |-> "str", n |-> 0, s |-> bytes]
FloatObj(i) == [kind |-> "float", n |-> i, s |-> <<>>]
None == <<>>

\* ------------------------------------------------------------------------
\* Word arithmetic used by the CRC32 code (^, >>, &)
\* ------------------------------------------------------------------------
RECURSIVE Xor(_, _)
Xor(x, y) ==
    IF x = 0 THEN y
    ELSE IF y = 0 THEN x
    ELSE (((x % 2) + (y % 2)) % 2) + 2 * Xor(x \div 2, y \div 2)

Word(hi, lo) == <<hi, lo>>
WordXor(w, v) == Word(Xor(w[1], v[1]), Xor(w[2], v[2]))
WordShr1(w) == Word(w[1] \div 2, (w[2] \div 2) + (w[1] % 2) * 32768)
WordShr8(w) == Word(w[1] \div 256, (w[2] \div 256) + (w[1] % 256) * 256)
WordLowByte(w) == w[2] % 256
\* w % m for a modulus m small enough that the products stay within range
WordMod(w, m) == ((w[1] % m) * (65536 % m) + (w[2] % m)) % m

\* 0x1db710640
Crc32Poly == Word(121713, 1600)
\* 0xffffffff
AllOnes == Word(65535, 65535)

\* ------------------------------------------------------------------------
\* crc32_table(): 256 entries, 8 rounds each
\* ------------------------------------------------------------------------
RECURSIVE Crc32Rounds(_, _)
Crc32Rounds(k, j) ==
    IF j = 0 THEN k
    ELSE Crc32Rounds(WordShr1(IF k[2] % 2 = 1 THEN WordXor(k, Crc32Poly) ELSE k), j - 1)

crc32_table == [i \in 1..256 |-> Crc32Rounds(Word(0, i - 1), 8)]

\* ------------------------------------------------------------------------
\* encode(key)
\* ------------------------------------------------------------------------
\* encode() returns [raised, value]: raised is "" when it returns value, and
\* the exception otherwise
Returns(v) == [raised |-> "", value |-> v]
Raises(e) == [raised |-> e, value |-> 0]

\* The loop of encode() over the characters of a string key.  The modulus m
\* is 115561578124838522881; with keys of at most two characters the sums
\* stay below 256 + 256 * 97, so the two reductions "% m" change nothing.
RECURSIVE EncodeLoop(_, _, _, _)
EncodeLoop(key, i, hash_value, p_power) ==
    IF i > Len(key) THEN hash_value
    ELSE EncodeLoop(key, i + 1, hash_value + key[i] * p_power, p_power * 97)

\* encode() with the final branch returning the key instead of raising
encode_NoRaise(key) ==
    IF key.kind = "str" THEN Returns(EncodeLoop(key.s, 1, 0, 1))
    ELSE Returns(key.n)

encode(key) ==
    IF key.kind = "str" THEN Returns(EncodeLoop(key.s, 1, 0, 1))
    ELSE IF key.kind = "int" THEN Returns(key.n)
    ELSE Raises("Exception")

\* ------------------------------------------------------------------------
\* crc32_hash(self, key)
\* ------------------------------------------------------------------------
RECURSIVE Crc32Loop(_, _, _)
Crc32Loop(bytes, i, crc32) ==
    IF i > Len(bytes) THEN crc32
    ELSE Crc32Loop(bytes, i + 1,
                   WordXor(WordShr8(crc32),
                           crc32_table[Xor(WordLowByte(crc32), bytes[i]) + 1]))

Crc32Digest(bytes) == WordXor(Crc32Loop(bytes, 1, AllOnes), AllOnes)

\* crc32_hash() multiplying whatever is not a str, without calling encode()
crc32_hash_NoEncode(a, table_size, key) ==
    IF key.kind = "str" THEN Returns(WordMod(Crc32Digest(key.s), table_size))
    ELSE Returns((a * key.n) % table_size)

\* crc32_hash() with a remainder that takes the sign of the dividend
crc32_hash_Truncated(a, table_size, key) ==
    IF key.kind = "str" THEN Returns(WordMod(Crc32Digest(key.s), table_size))
    ELSE IF encode(key).raised # "" THEN encode(key)
    ELSE IF a * encode(key).value < 0
    THEN Returns(0 - ((0 - a * encode(key).value) % table_size))
    ELSE Returns((a * encode(key).value) % table_size)

\* [raised, value]: the index for `key` in a table of `table_size` slots
\* under the multiplier a, or the exception encode() raised
crc32_hash(a, table_size, key) ==
    IF key.kind = "str" THEN Returns(WordMod(Crc32Digest(key.s), table_size))
    ELSE IF encode(key).raised # "" THEN encode(key)
    ELSE Returns((a * encode(key).value) % table_size)

hash_function(a, table_size, key) == crc32_hash(a, table_size, key)

\* ------------------------------------------------------------------------
\* The prime cache: primes_below_n(n) and the initial primes_table
\* ------------------------------------------------------------------------
\* Sieve of Eratosthenes on the candidates 2 .. n - 1: strike the multiples
\* of every p with p * p < n
RECURSIVE SieveFrom(_, _, _)
SieveFrom(cands, p, n) ==
    IF p * p >= n THEN cands
    ELSE SieveFrom(IF p \in cands THEN cands \ {p * k : k \in p..(n \div p)} ELSE cands,
                   p + 1, n)

\* the members of S within lo .. hi, ascending
RECURSIVE Ascending(_, _, _)
Ascending(S, lo, hi) ==
    IF lo > hi THEN <<>>
    ELSE IF lo = hi THEN (IF lo \in S THEN <<lo>> ELSE <<>>)
    ELSE Ascending(S, lo, (lo + hi) \div 2) \o Ascending(S, ((lo + hi) \div 2) + 1, hi)

primes_below_n(n) == Ascending(SieveFrom(2..(n - 1), 2, n), 2, n - 1)

\* upper end of the sieve that fills primes_table at construction
InitialSieveBound == 30

\* bisect_right in place of bisect_left: the number of elements <= x
bisect_left_Right(a, x) == Cardinality({i \in 1..Len(a) : a[i] <= x})

\* bisect.bisect_left(a, x) on an ascending list: the number of elements < x
bisect_left(a, x) == Cardinality({i \in 1..Len(a) : a[i] < x})

\* ------------------------------------------------------------------------
\* The HashTable instance
\* ------------------------------------------------------------------------
InitialTableSize == 23

\* resize_threshold = 0.75 as the fraction ThresholdNum / ThresholdDen
ThresholdNum == 3
ThresholdDen == 4

\* __init__ for a multiplier m drawn by randint
NewHashTable(m) ==
    [table |-> [i \in 1..InitialTableSize |-> None],
     table_size |-> InitialTableSize,
     filled_count |-> 0,
     a |-> m,
     primes_table |-> primes_below_n(InitialSieveBound),
     raised |-> "",
     resizes |-> 0]

\* load_factor as the fraction <<numerator, denominator>>
load_factor(self) == <<self.filled_count, self.table_size>>

\* the threshold test as "the table is full"
AtThreshold_WhenFull(self) == self.filled_count >= self.table_size

\* the threshold test against 0.5
AtThreshold_Half(self) == self.filled_count * 2 >= self.table_size

\* load_factor >= resize_threshold.  Both quotients are exact in floating
\* point for these sizes: |f/s - 3/4| >= 1/(4s) is far above one ulp.
AtThreshold(self) ==
    load_factor(self)[1] * ThresholdDen >= ThresholdNum * load_factor(self)[2]

\* the candidate size halved instead of doubled
ResizeCandidate_Halved(table_size) == (table_size \div 2) + 1

\* the candidate size as half the size, rounded up
ResizeCandidate_HalfUp(table_size) == (table_size + 1) \div 2

\* size = 2 * self.table_size + 1
ResizeCandidate(table_size) == 2 * table_size + 1

\* a new list one slot longer than table_size
EmptyTable_OneMore(table_size) == [i \in 1..(table_size + 1) |-> None]

\* the list self.table is replaced by in resize()
EmptyTable(table_size) == [i \in 1..table_size |-> None]

\* the slot update applied one slot after the hashed index
StorePair_Displaced(self, index, key, value) ==
    LET at == ((index + 1) % self.table_size) + 1
    IN  IF self.table[at] = None
        THEN [self EXCEPT !.table[at] = <<key, value>>, !.filled_count = @ + 1]
        ELSE IF self.table[at][1] = key
        THEN [self EXCEPT !.table[at] = <<self.table[at][1], value>>]
        ELSE self

\* the slot update counting an update as a new entry
StorePair_CountUpdate(self, index, key, value) ==
    IF self.table[index + 1] = None
    THEN [self EXCEPT !.table[index + 1] = <<key, value>>,
                      !.filled_count = @ + 1]
    ELSE IF self.table[index + 1][1] = key
    THEN [self EXCEPT !.table[index + 1] = <<self.table[index + 1][1], value>>,
                      !.filled_count = @ + 1]
    ELSE self

\* the slot update probing to the first empty slot, never comparing keys
StorePair_ProbeNoUpdate(self, index, key, value) ==
    LET free == {d \in 0..(self.table_size - 1) :
                    self.table[((index + d) % self.table_size) + 1] = None}
        d0 == CHOOSE d \in free : \A e \in free : d <= e
        at == ((index + d0) % self.table_size) + 1
    IN  IF free = {} THEN self
        ELSE [self EXCEPT !.table[at] = <<key, value>>, !.filled_count = @ + 1]

\* the slot update of insert() at list index `index`
StorePair(self, index, key, value) ==
    IF self.table[index + 1] = None
    THEN [self EXCEPT !.table[index + 1] = <<key, value>>,
                      !.filled_count = @ + 1]
    ELSE IF self.table[index + 1][1] = key
    THEN [self EXCEPT !.table[index + 1] = <<self.table[index + 1][1], value>>]
    ELSE self

RECURSIVE insert(_, _, _), resize(_), Rehash(_, _, _)

\* the rehash copying every pair to the slot it had in the old list
Rehash_CopyInPlace(self, temp, i) ==
    [self EXCEPT !.table = [j \in 1..self.table_size |->
                               IF j <= Len(temp) THEN temp[j] ELSE None],
                 !.filled_count = Cardinality({j \in 1..Len(temp) : temp[j] # None})]

\* the loop "for pair in temp" of resize(), from position i on
Rehash(self, temp, i) ==
    IF i > Len(temp) \/ self.raised # "" THEN self
    ELSE Rehash(IF temp[i] # None THEN insert(self, temp[i][1], temp[i][2]) ELSE self,
                temp, i + 1)

resize(self) ==
    LET size0 == ResizeCandidate(self.table_size)
        primes == IF size0 > self.primes_table[Len(self.primes_table)]
                  THEN primes_below_n(10 * size0)
                  ELSE self.primes_table
        at == bisect_left(primes, size0)
    IN  IF at >= Len(primes)
        THEN [self EXCEPT !.primes_table = primes, !.raised = "IndexError",
                          !.resizes = @ + 1]
        ELSE Rehash([self EXCEPT !.primes_table = primes,
                                 !.table_size = primes[at + 1],
                                 !.table = EmptyTable(primes[at + 1]),
                                 !.filled_count = 0,
                                 !.resizes = @ + 1],
                    self.table, 1)

\* insert() computing the index before the resize
insert_IndexFirst(self, key, value) ==
    LET index == hash_function(self.a, self.table_size, key)
        s1 == IF AtThreshold(self) THEN resize(self) ELSE self
    IN  IF s1.raised # "" THEN s1
        ELSE IF index.raised # "" THEN [s1 EXCEPT !.raised = index.raised]
        ELSE StorePair(s1, index.value, key, value)

insert(self, key, value) ==
    LET s1 == IF AtThreshold(self) THEN resize(self) ELSE self
        index == hash_function(s1.a, s1.table_size, key)
    IN  IF s1.raised # "" THEN s1
        ELSE IF index.raised # "" THEN [s1 EXCEPT !.raised = index.raised]
        ELSE StorePair(s1, index.value, key, value)

\* ------------------------------------------------------------------------
\* lookup(key): hash, then probe forward with wraparound until an empty slot
\* (miss) or a slot with an equal key (hit).  A table without an empty slot
\* and without the key is reported as a miss after table_size probes.
\* ------------------------------------------------------------------------
Miss == [raised |-> "", found |-> FALSE, value |-> None]
Hit(v) == [raised |-> "", found |-> TRUE, value |-> v]

RECURSIVE Probe(_, _, _, _)
Probe(self, key, index, probes) ==
    IF probes >= self.table_size THEN Miss
    ELSE IF self.table[index + 1] = None THEN Miss
    ELSE IF self.table[index + 1][1] = key THEN Hit(self.table[index + 1][2])
    ELSE Probe(self, key, (index + 1) % self.table_size, probes + 1)

lookup(self, key) ==
    LET index == hash_function(self.a, self.table_size, key)
    IN  IF index.raised # ""
        THEN [raised |-> index.raised, found |-> FALSE, value |-> None]
        ELSE Probe(self, key, index.value, 0)

\* ------------------------------------------------------------------------
\* __repr__: the text as the sequence of its character codes
\* ------------------------------------------------------------------------
\* str(n) for n >= 0
RECURSIVE Digits(_)
Digits(n) == IF n < 10 THEN <<48 + n>> ELSE Digits(n \div 10) \o <<48 + (n % 10)>>

\* str(i) for an int
IntText(i) == IF i < 0 THEN <<45>> \o Digits(0 - i) ELSE Digits(i)

\* f'\'{x}\'' if isinstance(x, str) else str(x)
ObjText(x) == IF x.kind = "str" THEN <<39>> \o x.s \o <<39>> ELSE IntText(x.n)

\* one element of the joined list: key + ': ' + value + ', '
PairText(pair) == ObjText(pair[1]) \o <<58, 32>> \o ObjText(pair[2]) \o <<44, 32>>

\* ''.join(... for pair in self.table if pair is not None), slots lo .. hi
RECURSIVE JoinPairs(_, _, _)
JoinPairs(tbl, lo, hi) ==
    IF lo > hi THEN <<>>
    ELSE IF lo = hi THEN (IF tbl[lo] # None THEN PairText(tbl[lo]) ELSE <<>>)
    ELSE JoinPairs(tbl, lo, (lo + hi) \div 2) \o JoinPairs(tbl, ((lo + hi) \div 2) + 1, hi)

\* __repr__ cutting one character instead of two
repr_CutOne(self) ==
    LET r == <<123>> \o JoinPairs(self.table, 1, Len(self.table))
    IN  IF Len(r) > 1 THEN SubSeq(r, 1, Len(r) - 1) \o <<125>> ELSE <<123, 125>>

repr(self) ==
    LET r == <<123>> \o JoinPairs(self.table, 1, Len(self.table))
    IN  IF Len(r) > 1 THEN SubSeq(r, 1, Len(r) - 2) \o <<125>> ELSE <<123, 125>>

\* ------------------------------------------------------------------------
\* The workload: one table, called from a single thread
\* ------------------------------------------------------------------------
\* values of self.a drawn by randint(1, 2**32) that are examined: 1 spreads
\* the keys 0, 1, 2, ...; 23 sends every int key to slot 0 of the first
\* table; 47 sends every int key to slot 0 of the second table
Multipliers == {1, 23, 47}

\* keys inserted at any time, in any order.  With a = 1 the keys -23 and
\* "b" both hash to slot 0 of the first table, where key 0 of the bulk load
\* goes too; in a table of 47 slots they go to slots 24 and 31.
HotKeys == {IntObj(-23), StrObj(<<98>>)}

\* a key that is neither str nor int: 3.14
UnsupportedKeys == {FloatObj(314)}

Values == {IntObj(1), StrObj(<<120>>)}

\* the value the bulk load writes for key i
BulkValue(i) == IntObj(100 + i)

LookupKeys == HotKeys \cup {IntObj(0)}

VARIABLES
    table,          \* self.table
    table_size,     \* self.table_size
    filled_count,   \* self.filled_count
    a,              \* self.a
    primes_table,   \* self.primes_table
    next,           \* the next key of the bulk load
    written,        \* history: key -> value of the latest insert that returned
    last            \* history: the latest call, its result and what it found

vars == <<table, table_size, filled_count, a, primes_table, next, written, last>>

Self ==
    [table |-> table, table_size |-> table_size, filled_count |-> filled_count,
     a |-> a, primes_table |-> primes_table, raised |-> "", resizes |-> 0]

\* the keys held by the slots of tbl
KeysOf(tbl) == {tbl[i][1] : i \in {j \in 1..Len(tbl) : tbl[j] # None}}

\* the (key, value) pairs held by the slots of tbl
PairsOf(tbl) == {tbl[i] : i \in {j \in 1..Len(tbl) : tbl[j] # None}}

NoCall ==
    [op |-> "new", key |-> None, value |-> None, raised |-> "", resizes |-> 0,
     pre_filled |-> 0, pre_size |-> InitialTableSize, pre_held |-> FALSE,
     found |-> FALSE, out |-> None, num |-> 0, den |-> 1]

Init ==
    /\ a \in Multipliers
    /\ table = NewHashTable(a).table
    /\ table_size = NewHashTable(a).table_size
    /\ filled_count = NewHashTable(a).filled_count
    /\ primes_table = NewHashTable(a).primes_table
    /\ next = 0
    /\ written = << >>
    /\ last = NoCall

\* the instance after a call that left it as `self`
Becomes(self) ==
    /\ table' = self.table
    /\ table_size' = self.table_size
    /\ filled_count' = self.filled_count
    /\ primes_table' = self.primes_table
    /\ a' = self.a

\* table.insert(key, value)
Call_insert(key, value) ==
    LET after == insert(Self, key, value)
    IN  /\ Becomes(after)
        /\ written' = IF after.raised = ""
                      THEN [k \in DOMAIN written \cup {key} |->
                               IF k = key THEN value ELSE written[k]]
                      ELSE written
        /\ last' = [NoCall EXCEPT !.op = "insert", !.key = key, !.value = value,
                                  !.raised = after.raised, !.resizes = after.resizes,
                                  !.pre_filled = filled_count, !.pre_size = table_size,
                                  !.pre_held = key \in KeysOf(table)]

Insert ==
    \E key \in HotKeys, value \in Values :
        /\ Call_insert(key, value)
        /\ UNCHANGED next

InsertNext ==
    /\ next < MaxNext
    /\ Call_insert(IntObj(next), BulkValue(next))
    /\ next' = next + 1

InsertUnsupported ==
    \E key \in UnsupportedKeys :
        /\ Call_insert(key, IntObj(1))
        /\ UNCHANGED next

\* table.lookup(key)
Lookup ==
    \E key \in LookupKeys :
        LET got == lookup(Self, key)
        IN  /\ last' = [NoCall EXCEPT !.op = "lookup", !.key = key,
                                      !.raised = got.raised, !.found = got.found,
                                      !.out = got.value,
                                      !.pre_filled = filled_count, !.pre_size = table_size,
                                      !.pre_held = key \in KeysOf(table)]
            /\ UNCHANGED <<table, table_size, filled_count, a, primes_table, next, written>>

\* table.load_factor
LoadFactor ==
    /\ last' = [NoCall EXCEPT !.op = "load_factor",
                              !.num = load_factor(Self)[1], !.den = load_factor(Self)[2],
                              !.pre_filled = filled_count, !.pre_size = table_size]
    /\ UNCHANGED <<table, table_size, filled_count, a, primes_table, next, written>>

\* repr(table)
Repr ==
    /\ last' = [NoCall EXCEPT !.op = "repr", !.out = repr(Self),
                              !.pre_filled = filled_count, !.pre_size = table_size]
    /\ UNCHANGED <<table, table_size, filled_count, a, primes_table, next, written>>

Next ==
    \/ Insert
    \/ InsertNext
    \/ InsertUnsupported
    \/ Lookup
    \/ LoadFactor
    \/ Repr

Spec == Init /\ [][Next]_vars

\* ------------------------------------------------------------------------
\* Properties
\* ------------------------------------------------------------------------
Supported(key) == key.kind \in {"str", "int"}

\* the latest call was insert(key, value) with a supported key and returned
InsertReturned == last.op = "insert" /\ last.raised = ""

IsPrime(n) == n > 1 /\ \A d \in 2..(n - 1) : n % d # 0

\* the slots of tbl that hold `key`
SlotsOf(tbl, key) == {i \in 1..Len(tbl) : tbl[i] # None /\ tbl[i][1] = key}

\* C1: round trip.  After insert(k, v) returns, the table holds an entry
\* whose key is k and whose value is v, and lookup(k) yields v.
C1_RoundTrip ==
    InsertReturned =>
        /\ <<last.key, last.value>> \in PairsOf(table)
        /\ lookup(Self, last.key) = Hit(last.value)

\* C2: no silent loss under collision.  Before any resize, whenever three
\* or more distinct inserted keys share their initial index and were written
\* with pairwise distinct values, each of them is held with its own value.
SameIndex(key) ==
    {k \in DOMAIN written :
        hash_function(a, table_size, k) = hash_function(a, table_size, key)}

C2_NoLossUnderCollision ==
    table_size = InitialTableSize =>
        \A key \in DOMAIN written :
            ( /\ Cardinality(SameIndex(key)) >= 3
              /\ \A j, k \in SameIndex(key) : j # k => written[j] # written[k] )
            => \A k \in SameIndex(key) : <<k, written[k]>> \in PairsOf(table)

\* C3: update, not duplicate.  When insert(k, v2) is called with k already
\* held, filled_count stays what it was, k is held by exactly one slot and
\* that slot carries v2.
C3_UpdateNotDuplicate ==
    (InsertReturned /\ last.pre_held) =>
        /\ filled_count = last.pre_filled
        /\ Cardinality(SlotsOf(table, last.key)) = 1
        /\ <<last.key, last.value>> \in PairsOf(table)

\* C4 as stated: right after insert returns, filled_count / table_size is
\* below resize_threshold.
C4_LoadFactorBelowThreshold ==
    InsertReturned => filled_count * ThresholdDen < ThresholdNum * table_size

\* C4 amended: (filled_count - 1) / table_size is below resize_threshold in
\* every state: the load factor is below the threshold when insert picks the
\* slot, and insert then adds at most one entry.
C4_LoadFactorOneAbove ==
    (filled_count - 1) * ThresholdDen < ThresholdNum * table_size

\* an insert returned and left the load factor at or above the threshold
C4_Witness ==
    /\ InsertReturned
    /\ filled_count * ThresholdDen >= ThresholdNum * table_size

\* C5: resize preserves entries.  In every state from which the next insert
\* resizes, resize() yields a table holding exactly the pairs held before,
\* with the same filled_count and a strictly greater table_size.
C5_ResizePreservesEntries ==
    AtThreshold(Self) =>
        /\ PairsOf(resize(Self).table) = PairsOf(table)
        /\ resize(Self).filled_count = filled_count
        /\ resize(Self).table_size > table_size

\* C6: table_size is a prime that is at least 23 and the table has exactly
\* table_size slots, in every state.
C6_PrimeCapacity ==
    /\ IsPrime(table_size)
    /\ table_size >= 23
    /\ Len(table) = table_size

\* the table after its second resize
C6_Witness == table_size = 97 /\ Len(table) = 97 /\ filled_count > 0

\* C7: table_size never decreases from one state to the next, whatever the
\* call.
C7_CapacityMonotone == [][table_size' >= table_size]_vars

\* an insert has resized, and a later read or failed insert has left the
\* grown table as it was
C7_Witness ==
    /\ table_size > InitialTableSize
    /\ last.op \in {"repr", "load_factor", "lookup"} \/ last.raised # ""
    /\ last.pre_size = table_size

\* C8: insert with a key that is neither str nor int raises, and no slot
\* holds that key afterwards.
C8_UnsupportedKeyRaises ==
    (last.op = "insert" /\ ~Supported(last.key)) =>
        /\ last.raised = "Exception"
        /\ SlotsOf(table, last.key) = {}

\* insert(3.14, 1) has just raised
C8_Witness ==
    /\ last.op = "insert"
    /\ last.key = FloatObj(314)
    /\ last.raised = "Exception"

\* C9: lookup starts at the index insert uses; it returns the stored value
\* of a key that is held and the not-found result, without raising, for a
\* key that is not held; it changes nothing of the table.
C9_Lookup ==
    [][last'.op = "lookup" =>
          /\ last'.raised = ""
          /\ IF last'.key \in KeysOf(table)
             THEN last'.found /\ <<last'.key, last'.out>> \in PairsOf(table)
             ELSE ~last'.found /\ last'.out = None
          /\ UNCHANGED <<table, table_size, filled_count, primes_table, a>>]_vars

\* a lookup found a key that is held, in a table holding two or more keys
C9_Witness ==
    /\ last.op = "lookup"
    /\ last.found
    /\ last.pre_held
    /\ filled_count >= 2

SmallestPrimeFrom(n) ==
    CHOOSE p \in n..(2 * n) : IsPrime(p) /\ \A q \in n..(p - 1) : ~IsPrime(q)

\* C11: resize size selection.  In every state from which the next insert
\* resizes, resize() returns without raising and installs the smallest
\* prime p >= 2 * table_size + 1, a member of the ascending prime cache;
\* the cache is kept when its largest prime reaches 2 * table_size + 1 and
\* is otherwise replaced by the primes below 10 * (2 * table_size + 1).
C11_ResizeSizeSelection ==
    AtThreshold(Self) =>
        LET cand == 2 * table_size + 1
            after == resize(Self)
            cache == after.primes_table
        IN  /\ after.raised = ""
            /\ after.table_size = SmallestPrimeFrom(cand)
            /\ \E i \in 1..Len(cache) : cache[i] = after.table_size
            /\ \A i \in 1..(Len(cache) - 1) : cache[i] < cache[i + 1]
            /\ IF primes_table[Len(primes_table)] < cand
               THEN {cache[i] : i \in 1..Len(cache)}
                        = {p \in 2..(10 * cand - 1) : IsPrime(p)}
               ELSE cache = primes_table

\* the second resize has run (the first one regenerated the cache, the
\* second one found its size in it)
C11_Witness ==
    /\ last.op = "insert"
    /\ last.resizes = 1
    /\ last.pre_size = 47
    /\ table_size = 97
    /\ Len(primes_table) > 10

\* C12: resize trigger and ordering.  An insert call resizes (once) exactly
\* when filled_count / table_size >= resize_threshold as the call begins,
\* and the index of the new key is computed after the resize: the table the
\* call leaves differs from the table as resized at most in the slot that
\* the key hashes to under the new table_size.
C12_ResizeBeforeIndex ==
    [][last'.op = "insert" =>
          LET due == filled_count * ThresholdDen >= ThresholdNum * table_size
              s1 == IF due THEN resize(Self) ELSE Self
              index == hash_function(a, table_size', last'.key)
          IN  /\ last'.resizes = (IF due THEN 1 ELSE 0)
              /\ table_size' = s1.table_size
              /\ due => table_size' # table_size
              /\ \A i \in 1..Len(table') :
                     table'[i] # s1.table[i] =>
                         /\ index.raised = ""
                         /\ i = index.value + 1
                         /\ table'[i] = <<last'.key, last'.value>>]_vars

\* an insert resized and then stored its key in a slot that is not the one
\* the key hashed to under the old table_size
C12_Witness ==
    /\ InsertReturned
    /\ last.resizes = 1
    /\ <<last.key, last.value>> \in PairsOf(table)
    /\ hash_function(a, table_size, last.key) # hash_function(a, last.pre_size, last.key)

\* the slots of tbl that are not None
Occupied(tbl) == {i \in 1..Len(tbl) : tbl[i] # None}

\* C13: filled_count equals the number of non-empty slots of table, in
\* every state between calls.
C13_FilledCountExact == filled_count = Cardinality(Occupied(table))

\* after a resize and an update of a held key, the table holds several
\* entries
C13_Witness ==
    /\ table_size > InitialTableSize
    /\ InsertReturned
    /\ last.pre_held
    /\ filled_count >= 3

\* C14: key uniqueness.  No two non-empty slots hold equal keys, in every
\* state, after resizes too.
C14_KeyUnique ==
    \A i, j \in Occupied(table) : table[i][1] = table[j][1] => i = j

\* a held key was inserted again into a table that has been resized and
\* that holds int and str keys
C14_Witness ==
    /\ table_size > InitialTableSize
    /\ InsertReturned
    /\ last.pre_held
    /\ \E i, j \in Occupied(table) : table[i][1].kind = "int" /\ table[j][1].kind = "str"

\* the number written by the decimal digits ds
RECURSIVE DigitsValue(_)
DigitsValue(ds) ==
    IF ds = <<>> THEN 0
    ELSE DigitsValue(SubSeq(ds, 1, Len(ds) - 1)) * 10 + (ds[Len(ds)] - 48)

\* txt is the bare decimal text of the int i: an optional '-', then digits
\* without a leading zero
IsDecimalOf(txt, i) ==
    LET ds == IF i < 0 THEN Tail(txt) ELSE txt
    IN  /\ Len(txt) >= 1
        /\ i < 0 => txt[1] = 45
        /\ Len(ds) >= 1
        /\ \A k \in 1..Len(ds) : ds[k] \in 48..57
        /\ Len(ds) > 1 => ds[1] # 48
        /\ DigitsValue(ds) = (IF i < 0 THEN 0 - i ELSE i)

\* x is rendered quoted when it is a str and as a bare decimal when an int
RenderedRight(x) ==
    IF x.kind = "str" THEN ObjText(x) = <<39>> \o x.s \o <<39>>
    ELSE IsDecimalOf(ObjText(x), x.n)

\* the items `key: value` of the slots at positions k .. Len(slots) of the
\* ascending list slots, separated by ', '
RECURSIVE ItemsFrom(_, _, _)
ItemsFrom(tbl, slots, k) ==
    IF k > Len(slots) THEN <<>>
    ELSE ObjText(tbl[slots[k]][1]) \o <<58, 32>> \o ObjText(tbl[slots[k]][2])
         \o (IF k < Len(slots) THEN <<44, 32>> ELSE <<>>)
         \o ItemsFrom(tbl, slots, k + 1)

Rendering(tbl) ==
    <<123>> \o ItemsFrom(tbl, Ascending(Occupied(tbl), 1, Len(tbl)), 1) \o <<125>>

\* C15: string rendering.  repr lists exactly the non-empty slots, once
\* each, in ascending slot order as `key: value` items separated by ', '
\* inside braces, str objects quoted and ints bare; an empty table gives
\* '{}'; the text depends on the table alone and producing it changes no
\* state.
C15_Rendering ==
    [][last'.op = "repr" =>
          /\ last'.out = Rendering(table)
          /\ Occupied(table) = {} => last'.out = <<123, 125>>
          /\ \A pair \in PairsOf(table) : RenderedRight(pair[1]) /\ RenderedRight(pair[2])
          /\ UNCHANGED <<table, table_size, filled_count, a, primes_table>>]_vars

\* repr of a table that holds a str key, a negative int key and more
C15_Witness ==
    /\ last.op = "repr"
    /\ filled_count >= 3
    /\ StrObj(<<98>>) \in KeysOf(table)
    /\ IntObj(-23) \in KeysOf(table)
    /\ Len(last.out) > 20

\* C16: placement.  Every non-empty slot i holds a pair whose key hashes to
\* i under the current table_size, in every state between calls.
C16_Placement ==
    \A i \in Occupied(table) :
        hash_function(a, table_size, table[i][1]) = Returns(i - 1)

\* after a resize the table holds a key in a slot other than the one the
\* key hashes to in a table of InitialTableSize slots
C16_Witness ==
    /\ table_size > InitialTableSize
    /\ \E i \in Occupied(table) :
           hash_function(a, InitialTableSize, table[i][1]) # Returns(i - 1)

\* C17: no nested resize.  A call of insert runs resize at most once: the
\* re-inserts of the rehash all begin below the threshold, and the rehash
\* is one pass that visits every pair of the old table once.
C17_NoNestedResize ==
    /\ last.op = "insert" => last.resizes <= 1
    /\ AtThreshold(Self) =>
           /\ resize(Self).resizes = 1
           /\ resize(Self).filled_count <= filled_count
           /\ resize(Self).filled_count * ThresholdDen
                  < ThresholdNum * resize(Self).table_size

\* an insert has resized a table of 47 slots holding 36 pairs or more
C17_Witness ==
    /\ last.op = "insert"
    /\ last.resizes = 1
    /\ last.pre_size = 47
    /\ last.pre_filled >= 36
    /\ filled_count >= 2

\* C18 as stated: when insert fails on an unsupported key, table,
\* table_size and filled_count are what they were before the call.
C18_StateUnchangedOnError ==
    [][(last'.op = "insert" /\ last'.raised # "") =>
          UNCHANGED <<table, table_size, filled_count>>]_vars

\* C18 amended: insert with an unsupported key raises and stores nothing
\* for that key.  When the call began below the threshold, table,
\* table_size and filled_count are unchanged; when it began at or above the
\* threshold, the resize has run before the key is rejected: table_size has
\* grown and the table is the rehashed one, all of whose pairs are pairs of
\* the old table.
C18_ErrorAfterResize ==
    [][(last'.op = "insert" /\ ~Supported(last'.key)) =>
          /\ last'.raised = "Exception"
          /\ SlotsOf(table', last'.key) = {}
          /\ IF filled_count * ThresholdDen < ThresholdNum * table_size
             THEN UNCHANGED <<table, table_size, filled_count>>
             ELSE /\ table_size' > table_size
                  /\ Len(table') = table_size'
                  /\ PairsOf(table') \subseteq PairsOf(table)
                  /\ filled_count' = Cardinality(PairsOf(table'))
                  /\ filled_count' <= filled_count]_vars

\* insert(3.14, 1) raised after it had resized the table
C18_Witness ==
    /\ last.op = "insert"
    /\ ~Supported(last.key)
    /\ last.raised = "Exception"
    /\ last.resizes = 1
    /\ table_size > last.pre_size

\* keys whose index is examined in every state: the empty and longer
\* strings, zero, negative and positive ints, and the keys of the workload
IndexKeys ==
    HotKeys \cup KeysOf(table)
        \cup {StrObj(<<>>), StrObj(<<97>>), StrObj(<<97, 98>>)}
        \cup {IntObj(i) : i \in {0, 1, -1, -47, MaxNext, 0 - MaxNext}}

\* C19: index in range.  For str keys and int keys, zero and negative
\* ones included, and every table_size reached, the index the hash function
\* returns lies in 0 .. table_size - 1 and so within the table.
C19_IndexInRange ==
    \A key \in IndexKeys :
        /\ hash_function(a, table_size, key).raised = ""
        /\ hash_function(a, table_size, key).value \in 0..(table_size - 1)
        /\ hash_function(a, table_size, key).value + 1 \in DOMAIN table

\* a negative int key and a str key are held in a table that was resized
\* twice
C19_Witness ==
    /\ table_size = 97
    /\ IntObj(-23) \in KeysOf(table)
    /\ StrObj(<<98>>) \in KeysOf(table)

====
